---- MODULE Spec2Model ----
(***************************************************************************)
(* A model of active_directory/models.py (Settings: principal resolution,  *)
(* save-time normalisation, search base, connection, paged user search)    *)
(* and active_directory/forms.py (SettingsForm.clean).                     *)
(*                                                                         *)
(* Python strings are sequences of one-character strings, so that strip,   *)
(* split, join, startswith and "in" are computed as Python computes them.  *)
(* None is the one-element sequence <<"None">>, which is no string of the  *)
(* model because "None" is not a character.                                *)
(***************************************************************************)
EXTENDS Integers, Sequences, FiniteSets

VARIABLES
    \* Settings instance fields (models.py:7-11)
    username, password, domain,
    \* the row written by the last Settings.save and the fields that save was given,
    \* each a sequence of one record, empty before the first save
    db, saved_from,
    \* Settings.get_user_principal_name: argument and returned value
    upn_in, upn_out,
    \* SettingsForm.clean: submitted username and outcome
    form_username, form_result,
    \* a call of get_users_info_ad / get_connection
    pc, op, login_username, login_password, users,
    search_filter, search_base, exc,
    \* the ldap3 connection as the server sees it
    bind_user, bind_password, bind_attempts, binds, unbinds, conn_open,
    \* the paged search: what the generator yields, how far it got, what was kept
    server_entries, cursor, more, fetches, max_page, results

settings_vars == <<username, password, domain>>
save_vars == <<db, saved_from>>
upn_vars == <<upn_in, upn_out>>
form_vars == <<form_username, form_result>>
call_vars == <<pc, op, login_username, login_password, users,
               search_filter, search_base, exc>>
conn_vars == <<bind_user, bind_password, bind_attempts, binds, unbinds, conn_open>>
page_vars == <<server_entries, cursor, more, fetches, max_page, results>>
vars == <<settings_vars, save_vars, upn_vars, form_vars, call_vars, conn_vars, page_vars>>

----------------------------------------------------------------------------
(* Bounds of the model *)

\* longest login handed to get_user_principal_name
MaxLoginLen == 5
\* longest username submitted to SettingsForm.clean
MaxFormLen == 4
\* longest username assigned to a Settings instance before save
MaxFieldLen == 3
\* full pages in the longest result stream
MaxFullPages == 2
\* entries in the last, partial page of the longest result stream
TailEntries == 200

----------------------------------------------------------------------------
(* Python values *)

None == <<"None">>
Pending == <<"Pending">>
BS == "\\"
AT == "@"

\* all strings over alphabet A of length at most n
Strings(A, n) == UNION {[1..k -> A] : k \in 0..n}

\* Python truthiness of a str-or-None value: None and '' are falsy
Truthy(s) == s # None /\ s # <<>>

\* c in s
Contains(s, c) == \E i \in 1..Len(s) : s[i] = c

IsSpace(c) == c = " "

\* str.strip(): leading and trailing whitespace removed
RECURSIVE LStrip(_)
LStrip(s) == IF s # <<>> /\ IsSpace(Head(s)) THEN LStrip(Tail(s)) ELSE s

RECURSIVE RStrip(_)
RStrip(s) ==
    IF s # <<>> /\ IsSpace(s[Len(s)]) THEN RStrip(SubSeq(s, 1, Len(s) - 1)) ELSE s

Strip(s) == RStrip(LStrip(s))

\* str.strip(c) for a single character c
RECURSIVE LStripChar(_, _)
LStripChar(s, c) == IF s # <<>> /\ Head(s) = c THEN LStripChar(Tail(s), c) ELSE s

RECURSIVE RStripChar(_, _)
RStripChar(s, c) ==
    IF s # <<>> /\ s[Len(s)] = c THEN RStripChar(SubSeq(s, 1, Len(s) - 1), c) ELSE s

StripChar(s, c) == RStripChar(LStripChar(s, c), c)

\* str.split(c): the parts between the occurrences of c, empty parts kept
RECURSIVE SplitFrom(_, _, _)
SplitFrom(s, c, part) ==
    IF s = <<>> THEN <<part>>
    ELSE IF Head(s) = c THEN <<part>> \o SplitFrom(Tail(s), c, <<>>)
    ELSE SplitFrom(Tail(s), c, Append(part, Head(s)))

Split(s, c) == SplitFrom(s, c, <<>>)

\* reversed(list)
Reversed(l) == [i \in 1..Len(l) |-> l[Len(l) + 1 - i]]

\* sep.join(list), sep a string
RECURSIVE Join(_, _)
Join(l, sep) ==
    IF l = <<>> THEN <<>>
    ELSE IF Len(l) = 1 THEN l[1]
    ELSE l[1] \o sep \o Join(Tail(l), sep)

\* ''.join(list)
Concat(l) == Join(l, <<>>)

----------------------------------------------------------------------------
(* Settings.get_user_principal_name (models.py:26-45) *)

\* the same without reversed(): 'domain\user' gives 'domain@user'
get_user_principal_name_unreversed(u) ==
    IF u = None THEN None
    ELSE IF Contains(u, AT) THEN u
    ELSE IF Contains(u, BS) THEN Join(Split(u, BS), <<AT>>)
    ELSE None

get_user_principal_name(u) ==
    IF u = None THEN None
    ELSE IF Contains(u, AT) THEN u
    ELSE IF Contains(u, BS) THEN Join(Reversed(Split(u, BS)), <<AT>>)
    ELSE None

LoginChars == {"a", "b", "c", AT, BS}
Logins == Strings(LoginChars, MaxLoginLen) \cup {None}


----------------------------------------------------------------------------
(* Values of the variables an operation does not use *)

NoSettings == username = None /\ password = None /\ domain = <<"d">>
NoSave == db = <<>> /\ saved_from = <<>>
NoPrincipal == upn_in = None /\ upn_out = Pending
NoForm == form_username = None /\ form_result = "pending"
NoCall ==
    /\ pc = "idle" /\ op = "none"
    /\ login_username = None /\ login_password = None
    /\ users = [kind |-> "none", items |-> <<>>, truthy |-> FALSE]
    /\ search_filter = None /\ search_base = None /\ exc = "none"
NoConnection ==
    /\ bind_user = None /\ bind_password = None
    /\ bind_attempts = 0 /\ binds = 0 /\ unbinds = 0 /\ conn_open = FALSE
NoSearch ==
    /\ server_entries = <<>> /\ cursor = 0 /\ more = TRUE
    /\ fetches = 0 /\ max_page = 0 /\ results = <<>>

----------------------------------------------------------------------------
(* Calls of get_user_principal_name on every login of the bounded set *)

InitPrincipal ==
    /\ upn_in \in Logins /\ upn_out = Pending
    /\ NoSettings /\ NoSave /\ NoForm /\ NoCall /\ NoConnection /\ NoSearch

ResolvePrincipal ==
    /\ upn_out = Pending
    /\ upn_out' = get_user_principal_name(upn_in)
    /\ UNCHANGED <<upn_in, settings_vars, save_vars, form_vars, call_vars,
                   conn_vars, page_vars>>

NextPrincipal == ResolvePrincipal

SpecPrincipal == InitPrincipal /\ [][NextPrincipal]_vars

----------------------------------------------------------------------------
(* SettingsForm.clean (forms.py:16-26) *)

Separators == {AT, BS}

\* str.startswith(separators) / str.endswith(separators) with a tuple
StartsWithAny(s, cs) == s # <<>> /\ Head(s) \in cs
EndsWithAny(s, cs) == s # <<>> /\ s[Len(s)] \in cs

\* cleaned_data.get('username') or ''
OrEmpty(s) == IF Truthy(s) THEN s ELSE <<>>

clean(submitted) ==
    LET u == Strip(OrEmpty(submitted)) IN
    IF StartsWithAny(u, Separators) \/ EndsWithAny(u, Separators)
    THEN "ValidationError"
    ELSE IF ~ \E sep \in Separators : Contains(u, sep)
    THEN "ValidationError"
    ELSE "ok"

FormChars == {"u", AT, BS, " "}
FormUsernames == Strings(FormChars, MaxFormLen) \cup {None}

InitForm ==
    /\ form_username \in FormUsernames /\ form_result = "pending"
    /\ NoSettings /\ NoSave /\ NoPrincipal /\ NoCall /\ NoConnection /\ NoSearch

Clean ==
    /\ form_result = "pending"
    /\ form_result' = clean(form_username)
    /\ UNCHANGED <<form_username, settings_vars, save_vars, upn_vars, call_vars,
                   conn_vars, page_vars>>

NextForm == Clean

SpecForm == InitForm /\ [][NextForm]_vars

----------------------------------------------------------------------------
(* Settings.save (models.py:47-58) *)

\* if self.x: self.x = self.x.strip()
StripIfTruthy(s) == IF Truthy(s) THEN Strip(s) ELSE s

\* the same with line 56 missing: the password outlives its username
save_keeping_password(u, p, d) ==
    LET u1 == StripIfTruthy(u)
        d1 == StripIfTruthy(d)
    IN  IF ~Truthy(u1)
        THEN [username |-> None, password |-> p, domain |-> d1]
        ELSE [username |-> u1, password |-> p, domain |-> d1]

\* the fields as save leaves them and writes them
save(u, p, d) ==
    LET u1 == StripIfTruthy(u)
        d1 == StripIfTruthy(d)
    IN  IF ~Truthy(u1)
        THEN [username |-> None, password |-> None, domain |-> d1]
        ELSE [username |-> u1, password |-> p, domain |-> d1]

FieldChars == {"u", " "}
FieldUsernames == Strings(FieldChars, MaxFieldLen) \cup {None}
FieldPasswords == {None, <<"p">>}
FieldDomains == {<<"d">>, <<" ", "d">>}

InitSave ==
    /\ NoSettings /\ NoSave
    /\ NoPrincipal /\ NoForm /\ NoCall /\ NoConnection /\ NoSearch

\* an administrator assigns the fields of the instance
SetUsername ==
    /\ \E u \in FieldUsernames : username' = u
    /\ UNCHANGED <<password, domain, save_vars, upn_vars, form_vars, call_vars,
                   conn_vars, page_vars>>

SetPassword ==
    /\ \E p \in FieldPasswords : password' = p
    /\ UNCHANGED <<username, domain, save_vars, upn_vars, form_vars, call_vars,
                   conn_vars, page_vars>>

SetDomain ==
    /\ \E d \in FieldDomains : domain' = d
    /\ UNCHANGED <<username, password, save_vars, upn_vars, form_vars, call_vars,
                   conn_vars, page_vars>>

Save ==
    LET row == save(username, password, domain) IN
    /\ saved_from' = <<[username |-> username, password |-> password, domain |-> domain]>>
    /\ username' = row.username
    /\ password' = row.password
    /\ domain' = row.domain
    /\ db' = <<row>>
    /\ UNCHANGED <<upn_vars, form_vars, call_vars, conn_vars, page_vars>>

NextSave == SetUsername \/ SetPassword \/ SetDomain \/ Save

SpecSave == InitSave /\ [][NextSave]_vars

----------------------------------------------------------------------------
(* Settings.get_search_base (models.py:60-66) *)

AttributeError == <<"AttributeError">>
IndexError == <<"IndexError">>

\* f'dc={u},'
DcLabel(u) == <<"d", "c", "=">> \o u \o <<",">>

\* the same with an unresolved username giving an empty base instead of raising
get_search_base_unguarded(u) ==
    LET upn == get_user_principal_name(u) IN
    IF upn = None THEN <<>>
    ELSE LET parts == Split(upn, AT) IN
         IF Len(parts) < 2 THEN IndexError
         ELSE LET labels == Split(parts[2], ".") IN
              StripChar(Concat([i \in 1..Len(labels) |-> DcLabel(labels[i])]), ",")

\* the search base of a Settings whose username field is u, or the exception
\* raised: None.split is an AttributeError, [1] of a one-element list an IndexError
get_search_base(u) ==
    LET upn == get_user_principal_name(u) IN
    IF upn = None THEN AttributeError
    ELSE LET parts == Split(upn, AT) IN
         IF Len(parts) < 2 THEN IndexError
         ELSE LET labels == Split(parts[2], ".") IN
              StripChar(Concat([i \in 1..Len(labels) |-> DcLabel(labels[i])]), ",")

----------------------------------------------------------------------------
(* Settings.get_users_info_ad, the search filter (models.py:89-96) *)

\* the users argument: None, a list/tuple of strings (items), or any other
\* value (a scalar), of which only its truthiness matters
UsersNone == [kind |-> "none", items |-> <<>>, truthy |-> FALSE]
UsersList(l) == [kind |-> "list", items |-> l, truthy |-> l # <<>>]
UsersScalar(t) == [kind |-> "scalar", items |-> <<>>, truthy |-> t]

\* isinstance(users, (list, tuple))
IsListOrTuple(us) == us.kind = "list"

\* '(objectClass=person)'
PersonFilter ==
    <<"(", "o", "b", "j", "e", "c", "t", "C", "l", "a", "s", "s", "=",
      "p", "e", "r", "s", "o", "n", ")">>

\* the same without strip()
SamClause_unstripped(user) ==
    <<"(", "s", "A", "M", "A", "c", "c", "o", "u", "n", "t", "N", "a", "m", "e", "=">>
        \o user \o <<")">>

\* f'(sAMAccountName={str(user).strip()})'
SamClause(user) ==
    <<"(", "s", "A", "M", "A", "c", "c", "o", "u", "n", "t", "N", "a", "m", "e", "=">>
        \o Strip(user) \o <<")">>

LDAPException == <<"LDAPException">>

\* the filter built for users, or the exception raised
build_search_filter(us) ==
    IF ~us.truthy THEN PersonFilter
    ELSE IF ~IsListOrTuple(us) THEN LDAPException
    ELSE LET sam_account_names ==
                 Concat([i \in 1..Len(us.items) |-> SamClause(us.items[i])])
         IN  <<"(", "&">> \o PersonFilter \o <<"(", "|">> \o sam_account_names
                 \o <<")", ")">>

----------------------------------------------------------------------------
(* Settings.get_connection (models.py:68-85) *)

\* lines 74-76: the login and password handed to ldap3.Connection
EffectiveCredentials(self_username, self_password, lu, lp) ==
    IF ~Truthy(lu)
    THEN [login |-> self_username, password |-> self_password]
    ELSE [login |-> lu, password |-> lp]

\* lines 80-83: what ldap3.Connection(server, username, login_password,
\* auto_bind=True) sends to the server. With no user ldap3 binds anonymously.
BindRequest(self_username, self_password, lu, lp) ==
    LET c == EffectiveCredentials(self_username, self_password, lu, lp)
        upn == get_user_principal_name(c.login)
    IN  [user |-> upn, password |-> c.password]

\* the exceptions of the bind that line 84 catches and line 85 raises again
BindErrors == {"LDAPSocketOpenError", "LDAPBindError"}

----------------------------------------------------------------------------
(* The paged search (models.py:105-115) *)

paged_size == 500

\* the same with the test of line 114 missing: every entry is kept
Kept_every(entry) == TRUE

\* entry.get('type') != 'searchResRef'
Kept(entry) == entry.type # "searchResRef"

\* the first n entries a search yields; every period-th one is a referral
\* (period 0: none is)
Stream(n, period) ==
    [i \in 1..n |->
        [id |-> i,
         type |-> IF period > 0 /\ i % period = 0
                  THEN "searchResRef" ELSE "searchResEntry"]]

StreamLengths ==
    {k * paged_size + t : k \in 0..MaxFullPages, t \in {0, 1, TailEntries}}
RefPeriods == {0, 1, 3}
Streams == {Stream(n, p) : n \in StreamLengths, p \in RefPeriods}

Min(a, b) == IF a < b THEN a ELSE b
Max(a, b) == IF a < b THEN b ELSE a

\* one request of the generator: the next page_size entries at most
NextPage(entries, from, page_size) ==
    SubSeq(entries, from + 1, Min(from + page_size, Len(entries)))

----------------------------------------------------------------------------
(* Calls of get_users_info_ad and get_connection *)

CallUsernames ==
    {None, <<"u">>, <<"u", "@", "d", ".", "e">>, <<"d", BS, "u">>}
CallPasswords == {None, <<"p">>}
CallLogins == {None, <<>>, <<"v">>, <<"v", "@", "f">>}
CallLoginPasswords == {None, <<"q">>}
CallUsers ==
    {UsersNone, UsersList(<<>>), UsersList(<< <<" ", "b">> >>),
     UsersScalar(TRUE), UsersScalar(FALSE)}

Init ==
    /\ username \in CallUsernames
    /\ password \in CallPasswords
    /\ domain = <<"d">>
    /\ NoSave /\ NoPrincipal /\ NoForm /\ NoCall /\ NoConnection /\ NoSearch

\* get_users_info_ad up to the bind that get_connection starts (lines 89-100,
\* 74-83): the filter, the search base, the credentials, each of which may raise
GetUsersInfoAd(lu, lp, us) ==
    LET f == build_search_filter(us)
        sb == get_search_base(username)
        req == BindRequest(username, password, lu, lp)
    IN  /\ pc = "idle"
        /\ op' = "get_users_info_ad"
        /\ login_username' = lu /\ login_password' = lp /\ users' = us
        /\ IF f = LDAPException
           THEN /\ pc' = "failed" /\ exc' = "LDAPException"
                /\ UNCHANGED <<search_filter, search_base, conn_vars>>
           ELSE IF sb \in {AttributeError, IndexError}
           THEN /\ search_filter' = f
                /\ pc' = "failed" /\ exc' = sb[1]
                /\ UNCHANGED <<search_base, conn_vars>>
           ELSE /\ search_filter' = f /\ search_base' = sb
                /\ bind_user' = req.user /\ bind_password' = req.password
                /\ bind_attempts' = bind_attempts + 1
                /\ pc' = "binding"
                /\ UNCHANGED <<exc, binds, unbinds, conn_open>>
        /\ UNCHANGED <<settings_vars, save_vars, upn_vars, form_vars, page_vars>>

\* get_connection called on its own, up to the bind (lines 74-83)
GetConnection(lu, lp) ==
    LET req == BindRequest(username, password, lu, lp) IN
    /\ pc = "idle"
    /\ op' = "get_connection"
    /\ login_username' = lu /\ login_password' = lp
    /\ bind_user' = req.user /\ bind_password' = req.password
    /\ bind_attempts' = bind_attempts + 1
    /\ pc' = "binding"
    /\ UNCHANGED <<users, search_filter, search_base, exc, binds, unbinds, conn_open,
                   settings_vars, save_vars, upn_vars, form_vars, page_vars>>

\* the server accepts the bind: ldap3.Connection returns the bound connection.
\* get_connection returns it to its caller; get_users_info_ad goes on to search
\* (the test of line 102 is never true: the constructor returns or raises)
BindAccepted ==
    /\ pc = "binding"
    /\ binds' = binds + 1
    /\ conn_open' = TRUE
    /\ IF op = "get_connection"
       THEN pc' = "returned" /\ UNCHANGED server_entries
       ELSE pc' = "searching" /\ server_entries' \in Streams
    /\ UNCHANGED <<op, login_username, login_password, users, search_filter,
                   search_base, exc, bind_user, bind_password, bind_attempts, unbinds,
                   cursor, more, fetches, max_page, results,
                   settings_vars, save_vars, upn_vars, form_vars>>

\* the bind fails: the exception leaves get_connection (line 85) and the caller
BindRejected ==
    /\ pc = "binding"
    /\ \E e \in BindErrors : exc' = e
    /\ pc' = "failed"
    /\ UNCHANGED <<op, login_username, login_password, users, search_filter,
                   search_base, conn_vars, page_vars,
                   settings_vars, save_vars, upn_vars, form_vars>>

\* one page of the search arrives and the loop of lines 105-115 runs over it
PagedSearchPage ==
    LET page == NextPage(server_entries, cursor, paged_size) IN
    /\ pc = "searching" /\ more
    /\ results' = results \o SelectSeq(page, Kept)
    /\ cursor' = cursor + Len(page)
    /\ more' = (cursor + Len(page) < Len(server_entries))
    /\ fetches' = fetches + 1
    /\ max_page' = Max(max_page, Len(page))
    /\ UNCHANGED <<server_entries, call_vars, conn_vars,
                   settings_vars, save_vars, upn_vars, form_vars>>

\* a page request raises (the socket breaks, the server answers with an error):
\* the exception leaves the loop and get_users_info_ad; line 118 is not reached
PagedSearchRaises ==
    /\ pc = "searching" /\ more
    /\ pc' = "failed" /\ exc' = "LDAPException"
    /\ fetches' = fetches + 1
    /\ UNCHANGED <<op, login_username, login_password, users, search_filter,
                   search_base, conn_vars, server_entries, cursor, more, max_page,
                   results, settings_vars, save_vars, upn_vars, form_vars>>

\* the generator is exhausted: lines 117-122 unbind and return the results
UnbindAndReturn ==
    /\ pc = "searching" /\ ~more
    /\ unbinds' = unbinds + 1
    /\ conn_open' = FALSE
    /\ pc' = "returned"
    /\ UNCHANGED <<op, login_username, login_password, users, search_filter,
                   search_base, exc, bind_user, bind_password, bind_attempts, binds,
                   page_vars, settings_vars, save_vars, upn_vars, form_vars>>

Next ==
    \/ \E lu \in CallLogins, lp \in CallLoginPasswords, us \in CallUsers :
           GetUsersInfoAd(lu, lp, us)
    \/ \E lu \in CallLogins, lp \in CallLoginPasswords : GetConnection(lu, lp)
    \/ BindAccepted
    \/ BindRejected
    \/ PagedSearchPage
    \/ PagedSearchRaises
    \/ UnbindAndReturn

Spec == Init /\ [][Next]_vars

----------------------------------------------------------------------------
(* The filter of get_users_info_ad on every users argument of the bounded set *)

\* longest identifier, and most identifiers in a list
MaxIdLen == 2
MaxUsers == 2

IdChars == {"b", " "}
Identifiers == Strings(IdChars, MaxIdLen)
FilterUsers ==
    {UsersNone, UsersScalar(TRUE), UsersScalar(FALSE)}
        \cup {UsersList(l) : l \in UNION {[1..k -> Identifiers] : k \in 0..MaxUsers}}

InitFilter ==
    /\ users \in FilterUsers
    /\ pc = "idle" /\ op = "none"
    /\ login_username = None /\ login_password = None
    /\ search_filter = None /\ search_base = None /\ exc = "none"
    /\ NoSettings /\ NoSave /\ NoPrincipal /\ NoForm /\ NoConnection /\ NoSearch

\* lines 89-96 alone
BuildSearchFilter ==
    LET f == build_search_filter(users) IN
    /\ pc = "idle"
    /\ IF f = LDAPException
       THEN pc' = "failed" /\ exc' = "LDAPException" /\ UNCHANGED search_filter
       ELSE pc' = "filter_built" /\ search_filter' = f /\ UNCHANGED exc
    /\ UNCHANGED <<op, login_username, login_password, users, search_base,
                   conn_vars, page_vars, settings_vars, save_vars, upn_vars, form_vars>>

NextFilter == BuildSearchFilter

SpecFilter == InitFilter /\ [][NextFilter]_vars

----------------------------------------------------------------------------
(* Properties *)

\* s consists of whitespace only (the empty string included)
AllSpace(s) == \A i \in 1..Len(s) : IsSpace(s[i])

\* s with its surrounding whitespace removed, stated without computing it: the
\* part t of s = a \o t \o b, a and b whitespace, that neither starts nor ends
\* with whitespace
Trimmed(s) ==
    CHOOSE t \in {SubSeq(s, i, j) : i \in 1..Len(s) + 1, j \in 0..Len(s)} :
        /\ t = <<>> \/ (~IsSpace(t[1]) /\ ~IsSpace(t[Len(t)]))
        /\ \E i \in 1..Len(s) + 1 :
               /\ i + Len(t) - 1 <= Len(s)
               /\ SubSeq(s, i, i + Len(t) - 1) = t
               /\ AllSpace(SubSeq(s, 1, i - 1))
               /\ AllSpace(SubSeq(s, i + Len(t), Len(s)))

\* C1: every run of get_users_info_ad that has ended, by returning or by raising,
\* has released each connection it bound: as many unbinds as binds, and no
\* connection left open.
C1_EveryBindReleased ==
    (op = "get_users_info_ad" /\ pc \in {"returned", "failed"})
        => (unbinds = binds /\ ~conn_open)

\* the login get_connection resolves: the override login if supplied, else the
\* stored username
C2_EffectiveLogin == IF Truthy(login_username) THEN login_username ELSE username

\* C2: when the effective login has neither '@' nor '\', no bind is attempted (in
\* particular none with an absent principal) and no connection is opened.
C2_UnresolvedLoginNeverBinds ==
    (op # "none" /\ ~Contains(OrEmpty(C2_EffectiveLogin), AT)
                 /\ ~Contains(OrEmpty(C2_EffectiveLogin), BS))
        => (bind_attempts = 0 /\ binds = 0 /\ ~conn_open)

\* C3: a users argument that is given but is no list or tuple makes
\* get_users_info_ad fail with the invalid-argument exception before anything is
\* sent: no bind attempted, no connection, no page requested. (Stated for
\* settings whose username resolves, where nothing else makes the call fail.)
C3_ScalarUsersRejected ==
    (op = "get_users_info_ad" /\ users.kind = "scalar"
         /\ get_search_base(username) \notin {AttributeError, IndexError})
        => /\ pc = "failed" /\ exc = "LDAPException"
           /\ bind_attempts = 0 /\ binds = 0 /\ fetches = 0

\* C4: get_user_principal_name returns, for every login: None if the login is
\* None or empty; the login itself if it contains '@'; otherwise, if it contains
\* '\', the string of the same length whose '@'-separated parts are the
\* '\'-separated parts of the login in reverse order ('a\b' gives 'b@a', 'a\b\c'
\* gives 'c@b@a'); otherwise None. It never yields anything but None or a string.
C4_PrincipalResolution ==
    upn_out # Pending =>
        /\ upn_out = None \/ \A i \in 1..Len(upn_out) : upn_out[i] \in LoginChars
        /\ (upn_in = None \/ upn_in = <<>>) => upn_out = None
        /\ (upn_in # None /\ Contains(upn_in, AT)) => upn_out = upn_in
        /\ (upn_in # None /\ ~Contains(upn_in, AT) /\ Contains(upn_in, BS)) =>
               /\ Len(upn_out) = Len(upn_in)
               /\ \A i \in 1..Len(upn_out) : upn_out[i] # BS
               /\ LET parts == Split(upn_in, BS)
                      out == Split(upn_out, AT)
                  IN  /\ Len(out) = Len(parts)
                      /\ \A i \in 1..Len(parts) : out[i] = parts[Len(parts) + 1 - i]
        /\ (upn_in # None /\ ~Contains(upn_in, AT) /\ ~Contains(upn_in, BS)) =>
               upn_out = None
        /\ upn_in = <<"a", BS, "b">> => upn_out = <<"b", AT, "a">>
        /\ upn_in = <<"a", BS, "b", BS, "c">> => upn_out = <<"c", AT, "b", AT, "a">>

C4_Witness ==
    /\ upn_in = <<"a", BS, "b", BS, "c">>
    /\ upn_out = <<"c", AT, "b", AT, "a">>

\* C5 as stated: every saved row has username and password both present or both
\* absent.
C5_AllOrNothing ==
    db # <<>> => ((db[1].username = None) <=> (db[1].password = None))

\* C5 as amended: a saved row with an absent username has an absent password,
\* and no saved username is empty or carries surrounding whitespace; a save given
\* an absent, empty or whitespace-only username stores both as absent.
C5_NoPasswordWithoutUsername ==
    db # <<>> =>
        /\ db[1].username = None => db[1].password = None
        /\ db[1].username # None =>
               /\ db[1].username # <<>>
               /\ ~IsSpace(db[1].username[1])
               /\ ~IsSpace(db[1].username[Len(db[1].username)])
        /\ (saved_from[1].username = None \/ AllSpace(saved_from[1].username)) =>
               (db[1].username = None /\ db[1].password = None)

C5_Witness ==
    /\ db # <<>>
    /\ saved_from[1].username = <<" ", " ">>
    /\ saved_from[1].password = <<"p">>
    /\ db[1].username = None /\ db[1].password = None
    /\ username = None /\ password = None

\* C6: clean accepts a username exactly when, trimmed, it is empty or it contains
\* '@' or '\' and neither starts nor ends with one of them.
C6_CleanAccepts ==
    form_result # "pending" =>
        LET t == Trimmed(OrEmpty(form_username)) IN
        (form_result = "ok") <=>
            \/ t = <<>>
            \/ /\ \E i \in 1..Len(t) : t[i] \in {AT, BS}
               /\ t[1] \notin {AT, BS}
               /\ t[Len(t)] \notin {AT, BS}

\* C7: the bind uses the override pair when both are given and the stored pair
\* otherwise.
C7_CredentialPair ==
    bind_attempts > 0 =>
        LET both == Truthy(login_username) /\ login_password # None
            login == IF both THEN login_username ELSE username
            pass == IF both THEN login_password ELSE password
        IN  /\ bind_user = get_user_principal_name(login)
            /\ bind_password = pass

\* an entry that is not a referral
C8_NotReferral(entry) == entry.type # "searchResRef"

\* C8: while a search runs and when it has returned, the results are exactly the
\* entries yielded so far that are not referrals, in the order yielded; no page
\* holds more than 500 entries, so n entries take at least n / 500 requests; the
\* search returns only when every entry has been yielded.
C8_ResultsAreKeptEntries ==
    (op = "get_users_info_ad" /\ pc \in {"searching", "returned"}) =>
        /\ results = SelectSeq(SubSeq(server_entries, 1, cursor), C8_NotReferral)
        /\ max_page <= 500
        /\ cursor <= 500 * fetches
        /\ pc = "returned" =>
               /\ cursor = Len(server_entries)
               /\ Len(server_entries) = 1200 => fetches >= 3
               /\ (\A i \in 1..Len(server_entries) : C8_NotReferral(server_entries[i]))
                      => results = server_entries

C8_Witness ==
    /\ op = "get_users_info_ad" /\ pc = "returned"
    /\ Len(server_entries) = 1200
    /\ \E i \in 1..1200 : ~C8_NotReferral(server_entries[i])
    /\ \E i \in 1..1200 : C8_NotReferral(server_entries[i])
    /\ fetches = 3
    /\ Len(results) = 800

C9_Person ==
    <<"(", "o", "b", "j", "e", "c", "t", "C", "l", "a", "s", "s", "=", "p", "e",
      "r", "s", "o", "n", ")">>

C9_Sam ==
    <<"(", "s", "A", "M", "A", "c", "c", "o", "u", "n", "t", "N", "a", "m", "e",
      "=">>

RECURSIVE C9_Clauses(_)
C9_Clauses(ids) ==
    IF ids = <<>> THEN <<>>
    ELSE C9_Sam \o Trimmed(Head(ids)) \o <<")">> \o C9_Clauses(Tail(ids))

\* C9: for users None or a list, the filter is built, and it is
\* '(objectClass=person)' when users is None or empty and otherwise
\* '(&(objectClass=person)(|' followed by one '(sAMAccountName=t)' per identifier,
\* t the identifier trimmed, in the list's order, followed by '))'.
C9_SearchFilter ==
    (pc # "idle" /\ users.kind \in {"none", "list"}) =>
        /\ pc = "filter_built"
        /\ search_filter =
               IF users.kind = "none" \/ users.items = <<>>
               THEN C9_Person
               ELSE <<"(", "&">> \o C9_Person \o <<"(", "|">>
                        \o C9_Clauses(users.items) \o <<")", ")">>

C9_Witness ==
    /\ pc = "filter_built"
    /\ users = UsersList(<< <<" ", "b">>, <<"b", " ">> >>)
    /\ search_filter =
           <<"(", "&", "(", "o", "b", "j", "e", "c", "t", "C", "l", "a", "s", "s",
             "=", "p", "e", "r", "s", "o", "n", ")", "(", "|", "(", "s", "A", "M",
             "A", "c", "c", "o", "u", "n", "t", "N", "a", "m", "e", "=", "b", ")",
             "(", "s", "A", "M", "A", "c", "c", "o", "u", "n", "t", "N", "a", "m",
             "e", "=", "b", ")", ")", ")">>

\* C10: in get_users_info_ad the search base comes from the stored username and
\* before the connection: when the stored username resolves to no principal, the
\* call has failed with no bind attempted and no connection open, whatever the
\* override credentials; and when a bind is attempted the search base is that of
\* the stored username ('u@d.e' gives 'dc=d,dc=e', 'd\u' gives 'dc=d').
C10_SearchBaseBeforeConnection ==
    op = "get_users_info_ad" =>
        /\ (~Contains(OrEmpty(username), AT) /\ ~Contains(OrEmpty(username), BS)) =>
               (pc = "failed" /\ bind_attempts = 0 /\ binds = 0 /\ ~conn_open)
        /\ bind_attempts > 0 =>
               /\ username = <<"u", AT, "d", ".", "e">> =>
                      search_base = <<"d", "c", "=", "d", ",", "d", "c", "=", "e">>
               /\ username = <<"d", BS, "u">> => search_base = <<"d", "c", "=", "d">>

C10_Witness ==
    /\ op = "get_users_info_ad"
    /\ username = <<"u">>
    /\ login_username = <<"v", AT, "f">> /\ login_password = <<"q">>
    /\ pc = "failed" /\ exc = "AttributeError"
    /\ bind_attempts = 0 /\ ~conn_open

====
